---- MODULE Spec2Model ----
(***************************************************************************)
(* grafpng: one report session.  report.Generate fetches a dashboard,      *)
(* renderPNGsParallel fans its panels out to a pool of goroutines that     *)
(* fetch, persist and decode one image per panel, and processImages stacks *)
(* the decoded images into one PNG.  ServeHTTP drives one session per      *)
(* request.  The main goroutine's position is pc; the pool goroutines are  *)
(* anonymous, so the pool is the bag of their states.                      *)
(***************************************************************************)
EXTENDS Naturals, Integers, Sequences, FiniteSets, Bags, TLC

\* ---------------------------------------------------------------- bounds
\* The largest number of panels a fetched dashboard holds.
MaxPanels == 2
\* The number of calls the direct caller of a session makes (SpecSession).
MaxCalls == 3
\* The longest images slice given to processImages on its own (SpecCompose).
MaxImages == 2
\* The largest width and height of an image in it.
MaxDim == 2
\* The largest value given to the -worker flag.
MaxWorker == 2

\* ------------------------------------------------------ program constants
\* report.go:135  workers := 5
workers == 5

\* main.go:33  flag.Int("worker", 2, "Service Workers")
workerDefault == 2
\* values the -worker flag may be given
WorkerFlags == -1..MaxWorker
\* main.go:39-42  a flag below 1 is replaced by 1
mainWorker(flag) == IF flag < 1 THEN 1 ELSE flag

PanelIds == 1..MaxPanels

\* Titles the dashboard source may return (Dashboard.Title).
Titles == {"", "Dash"}

\* ------------------------------------------------------------ file paths
\* report.go:66  tmpDir := filepath.Join("tmp", uuid.New())
TmpDir == <<"tmp", "uuid">>
\* report.go:54
imgDir == "images"
\* report.go:110-112
imgDirPath == TmpDir \o <<imgDir>>
\* one file name for every panel
imgFileNameFixed(p) == "image.png"

\* report.go:192-193  a panel's image file under the image directory
imgFileName(p) == "image" \o ToString(p) \o ".png"
imgFilePath(p) == imgDirPath \o <<imgFileName(p)>>
\* report.go:351  file := outfile + ".png", relative to the working directory
compositePath(title) == <<title \o ".png">>

NoFile == <<>>

IsPrefix(d, f) == Len(d) <= Len(f) /\ SubSeq(f, 1, Len(d)) = d

\* ---------------------------------------------------------------- errors
\* An error value: what failed, and the panel its message names (0: none).
NoErr == [kind |-> "nil", panel |-> 0]
Err(k, p) == [kind |-> k, panel |-> p]
\* What Generate returns: the open file (or NoFile) and the error, wrapped
\* with the phase that failed and the dashboard name its message gives.
NoRet == [file |-> NoFile, phase |-> "none", dashName |-> "", cause |-> NoErr]

VARIABLES
    driver,     \* who drives the session: "ServeHTTP" or "session"
    pc,         \* position of the main goroutine
    alive,      \* FALSE once log.Fatal has called os.Exit
    calls,      \* SpecSession: calls made by the direct caller so far
    dashTitle,  \* report.dashTitle
    dash,       \* Generate's local dash: [n: number of panels, title]
    queue,      \* the panels channel (filled and closed)
    errs,       \* the errs channel
    images,     \* the shared images slice (the panel of each imageData)
    wg,         \* the WaitGroup counter
    pool,       \* the bag of the pool goroutines' states
    fs,         \* the files and directories that exist
    rret,       \* renderPNGsParallel's result [fn, err]
    genRet,     \* Generate's result
    fileOpen,   \* the handle Generate returned is open
    status,     \* HTTP status written by ServeHTTP (0: none yet)
    fetchCount, \* GetPanelPng calls per panel in the current retrieval
    failed,     \* <<panel, failing step>> of each renderPNG error in it
    composed,   \* the slice it handed to processImages
    composing,  \* processImages was called in it
    cleanCalls, \* number of Clean() calls
    worker,     \* the -worker flag as main leaves it
    titleCall,  \* the caller's last Title() call: its fetch and its result
    composeIn,  \* SpecCompose: the images slice given to processImages
    composeOut, \* SpecCompose: what processImages returned and drew
    sess        \* SpecTwo: the state of each of two concurrent sessions

vars == <<driver, pc, alive, calls, dashTitle, dash, queue, errs, images, wg,
          pool, fs, rret, genRet, fileOpen, status, fetchCount, failed,
          composed, composing, cleanCalls, worker, titleCall, composeIn,
          composeOut, sess>>

\* Groups of variables, for UNCHANGED.
chanVars == <<queue, errs, images, wg>>
poolVars == <<queue, errs, images, wg, pool>>
ghostVars == <<fetchCount, failed, composed, composing>>
callerVars == <<driver, calls, status, cleanCalls>>
sideVars == <<worker, titleCall, composeIn, composeOut, sess>>

\* ------------------------------------------------------------ helpers
\* os.MkdirAll(path): the directory and every parent of it.
MkdirAll(path) == {SubSeq(path, 1, k) : k \in 1..Len(path)}

\* os.RemoveAll(path): what is left of the files.
RemoveAll(files, path) == {f \in files : ~IsPrefix(path, f)}

\* dash.Panels as the sequence of panel ids, in dashboard order.
PanelsOf(n) == [k \in 1..n |-> k]

\* ------------------------------------------------- pool goroutines
\* The state of one goroutine of report.go:139-165: its position, the panel
\* p of the current iteration, renderPNG's filename and err, and the slice
\* header it read for the append; whether the file renderPNG wrote is still
\* open (wopen), and the number of fimg handles whose Close() is deferred to
\* the goroutine's exit (held).
Goroutine(at, p, file, err, snap) ==
    [pc |-> at, p |-> p, file |-> file, err |-> err, snap |-> snap,
     wopen |-> FALSE, held |-> 0]
AtRange == Goroutine("range", 0, NoFile, NoErr, <<>>)
Exited == Goroutine("done", 0, NoFile, NoErr, <<>>)
At(g, at) == [g EXCEPT !.pc = at]

\* goroutine g moves to state h
Step(g, h) == pool' = (pool (-) SetToBag({g})) (+) SetToBag({h})

\* report.go:141  for p := range panels  (a panel is received)
WRecv(g) ==
    /\ alive /\ g.pc = "range" /\ queue # <<>>
    /\ Step(g, [g EXCEPT !.pc = "renderPNG", !.p = Head(queue)])
    /\ queue' = Tail(queue)
    /\ UNCHANGED <<pc, alive, dashTitle, dash, errs, images, wg, fs, rret,
                   genRet, fileOpen, callerVars, ghostVars, sideVars>>

\* report.go:140  defer wg.Done()
WgDone(n) == n - 1

\* the handles left open when the goroutine exits
deferredCloseSkipped(held) == held

\* report.go:151  the deferred fimg.Close() calls run when the goroutine's
\* function returns, before the wg.Done() deferred first
deferredClose(held) == 0

\* report.go:140-141  the closed channel is drained: the loop ends and the
\* deferred wg.Done() runs.
WExit(g) ==
    /\ alive /\ g.pc = "range" /\ queue = <<>>
    /\ Step(g, [Exited EXCEPT !.held = deferredClose(g.held)])
    /\ wg' = WgDone(wg)
    /\ UNCHANGED <<pc, alive, dashTitle, dash, queue, errs, images, fs, rret,
                   genRet, fileOpen, callerVars, ghostVars, sideVars>>

\* report.go:180-206  renderPNG(p).  out is the step that fails, or "ok".
RenderOutcome == {"ok", "fetch", "mkdir", "create", "copy"}

\* the filename renderPNG returns
renderPNGName(p, out) == IF out = "ok" THEN imgFilePath(p) ELSE NoFile

\* the error renderPNG returns; only the fetch error's message names the panel
renderPNGErr(p, out) ==
    CASE out = "ok"    -> NoErr
      [] out = "fetch" -> Err("fetch", p)
      [] OTHER         -> Err(out, 0)

\* the files after renderPNG(p)
renderPNGFiles(files, p, out) ==
    CASE out \in {"fetch", "mkdir"} -> files
      [] out = "create"             -> files \cup MkdirAll(imgDirPath)
      [] OTHER -> files \cup MkdirAll(imgDirPath) \cup {imgFilePath(p)}

\* report.go:193-205  the file renderPNG created is closed by the deferred
\* file.Close() when renderPNG returns; nothing is open when it was not created
renderPNGOpen(out) == FALSE

\* report.go:142-143  filename, err := rep.renderPNG(p)
WRenderPNG(g) ==
    /\ alive /\ g.pc = "renderPNG"
    /\ \E out \in RenderOutcome :
        /\ fetchCount' = [fetchCount EXCEPT ![g.p] = @ + 1]
        /\ fs' = renderPNGFiles(fs, g.p, out)
        /\ failed' = IF out = "ok" THEN failed ELSE failed \cup {<<g.p, out>>}
        /\ Step(g, [g EXCEPT !.pc = IF out = "ok" THEN "open" ELSE "errs",
                             !.file = renderPNGName(g.p, out),
                             !.err = renderPNGErr(g.p, out),
                             !.wopen = renderPNGOpen(out)])
    /\ UNCHANGED <<pc, alive, dashTitle, dash, chanVars, rret, genRet,
                   fileOpen, callerVars, composed, composing, sideVars>>

\* report.go:137  cap(errs) = len(dash.Panels)
errsCap == dash.n

\* report.go:144-146  errs <- err; the loop body then goes on to os.Open
WErrsSend(g) ==
    /\ alive /\ g.pc = "errs" /\ Len(errs) < errsCap
    /\ errs' = Append(errs, g.err)
    /\ Step(g, At(g, "open"))
    /\ UNCHANGED <<pc, alive, dashTitle, dash, queue, images, wg, fs, rret,
                   genRet, fileOpen, callerVars, ghostVars, sideVars>>

\* os.Open(name) can succeed only on a file that exists.
CanOpen(files, name) == name # NoFile /\ name \in files

\* log.Fatal: the message is logged and os.Exit(1) ends the process
logFatal == alive' = FALSE

\* report.go:147-151  os.Open(filename); log.Fatal on failure; the handle's
\* Close() is deferred
WOpen(g) ==
    /\ alive /\ g.pc = "open"
    /\ \E ok \in BOOLEAN :
        IF ok /\ CanOpen(fs, g.file)
          THEN /\ Step(g, [g EXCEPT !.pc = "decode", !.held = @ + 1])
               /\ UNCHANGED alive
          ELSE logFatal /\ UNCHANGED pool
    /\ UNCHANGED <<pc, dashTitle, dash, chanVars, fs, rret, genRet, fileOpen,
                   callerVars, ghostVars, sideVars>>

\* report.go:153-161  image.Decode and getImageData; log.Fatal on failure
WDecode(g) ==
    /\ alive /\ g.pc = "decode"
    /\ \E out \in {"ok", "decode", "getImageData"} :
        IF out = "ok"
          THEN Step(g, At(g, "append")) /\ UNCHANGED alive
          ELSE logFatal /\ UNCHANGED pool
    /\ UNCHANGED <<pc, dashTitle, dash, chanVars, fs, rret, genRet, fileOpen,
                   callerVars, ghostVars, sideVars>>

\* report.go:163  images = append(images, &imd) is not synchronised: the
\* slice header is read ...
WAppendLoad(g) ==
    /\ alive /\ g.pc = "append"
    /\ Step(g, [g EXCEPT !.pc = "store", !.snap = images])
    /\ UNCHANGED <<pc, alive, dashTitle, dash, chanVars, fs, rret, genRet,
                   fileOpen, callerVars, ghostVars, sideVars>>

\* report.go:163  append(images, &imd) on the slice that was read
appendImage(old, p) == Append(old, p)

\* ... and the extended slice is written back; the iteration is over.
WAppendStore(g) ==
    /\ alive /\ g.pc = "store"
    /\ images' = appendImage(g.snap, g.p)
    /\ Step(g, [AtRange EXCEPT !.held = g.held])
    /\ UNCHANGED <<pc, alive, dashTitle, dash, queue, errs, wg, fs, rret,
                   genRet, fileOpen, callerVars, ghostVars, sideVars>>

\* ---------------------------------------------- renderPNGsParallel
\* report.go:136  wg.Add(workers)
WgAdd == workers

\* report.go:122-167  the panels are buffered on the closed channel, the
\* images slice, the WaitGroup and the errs channel are made, and the pool
\* of goroutines is started.
REnqueue ==
    /\ alive /\ pc = "renderPNGsParallel"
    /\ queue' = PanelsOf(dash.n)
    /\ errs' = <<>>
    /\ images' = <<>>
    /\ wg' = WgAdd
    /\ pool' = [g \in {AtRange} |-> workers]
    /\ fetchCount' = [p \in PanelIds |-> 0]
    /\ failed' = {}
    /\ composed' = <<>>
    /\ composing' = FALSE
    /\ rret' = [fn |-> NoFile, err |-> NoErr]
    /\ pc' = "wg.Wait"
    /\ UNCHANGED <<alive, dashTitle, dash, fs, genRet, fileOpen, callerVars,
                   sideVars>>

\* wg.Wait() left out: the coordinator does not wait
WgWaitMissing == TRUE

\* report.go:168  wg.Wait() returns once the counter is zero
WgWait == wg = 0

\* report.go:168-169
RWait ==
    /\ alive /\ pc = "wg.Wait" /\ WgWait
    /\ pc' = "collect"
    /\ UNCHANGED <<alive, dashTitle, dash, poolVars, fs, rret, genRet,
                   fileOpen, callerVars, ghostVars, sideVars>>

\* report.go:284-297  getTotalDim fails when the summed height and width are
\* both 0.  A decoded PNG has positive width and height, so the sums are 0
\* exactly when there is no image.
getTotalDimErr(imgs) == Len(imgs) = 0

\* report.go:320-364  processImages(images, outfile): its error, the file
\* name it returns and the files it leaves.  out is the step of makeImage
\* that fails, or "ok".
ComposeOutcome == {"ok", "create", "encode"}
processImagesErr(imgs, out) ==
    IF getTotalDimErr(imgs) THEN Err("totalDim", 0)
    ELSE IF out = "ok" THEN NoErr ELSE Err(out, 0)
processImagesFile(imgs, title, out) ==
    IF processImagesErr(imgs, out) = NoErr THEN compositePath(title)
    ELSE NoFile
processImagesFiles(files, imgs, title, out) ==
    IF getTotalDimErr(imgs) \/ out = "create" THEN files
    ELSE files \cup {compositePath(title)}

\* report.go:171-175  the error renderPNGsParallel returns from the channel
firstErr(ch) == IF ch = <<>> THEN NoErr ELSE Head(ch)

\* report.go:171-177  the first error on the channel is returned; with no
\* error the images slice is handed to processImages.
RCollect ==
    /\ alive /\ pc = "collect"
    /\ IF firstErr(errs) # NoErr
         THEN /\ rret' = [fn |-> NoFile, err |-> firstErr(errs)]
              /\ UNCHANGED <<fs, composed, composing>>
         ELSE \E out \in ComposeOutcome :
              /\ composed' = images
              /\ composing' = TRUE
              /\ rret' = [fn |-> processImagesFile(images, dash.title, out),
                          err |-> processImagesErr(images, out)]
              /\ fs' = processImagesFiles(fs, images, dash.title, out)
    /\ pc' = "Generate.rendered"
    /\ UNCHANGED <<alive, dashTitle, dash, poolVars, genRet, fileOpen,
                   callerVars, fetchCount, failed, sideVars>>

\* The locals of a call that has not started or has returned.
NoRetrieval ==
    /\ queue = <<>> /\ errs = <<>> /\ images = <<>> /\ wg = 0
    /\ pool = EmptyBag
    /\ rret = [fn |-> NoFile, err |-> NoErr]
    /\ fetchCount = [p \in PanelIds |-> 0]
    /\ failed = {} /\ composed = <<>> /\ composing = FALSE
NoDash == [n |-> 0, title |-> ""]

\* renderPNGsParallel has returned to Generate and Generate returns: the
\* locals of both are gone.
ReturnRetrieval ==
    /\ queue' = <<>> /\ errs' = <<>> /\ images' = <<>> /\ wg' = 0
    /\ pool' = EmptyBag
    /\ rret' = [fn |-> NoFile, err |-> NoErr]
    /\ fetchCount' = [p \in PanelIds |-> 0]
    /\ failed' = {} /\ composed' = <<>> /\ composing' = FALSE

\* ------------------------------------------------------ report.Generate
\* report.go:60-68  rep.dashName, the dashboard the report is made for
DashName == "dashName"

\* the wrapped error without the dashboard name in its message
GenerateDashboardErrUnnamed(name, cause) ==
    [file |-> NoFile, phase |-> "dashboard", dashName |-> "", cause |-> cause]

\* report.go:74-77  nil and fmt.Errorf("error fetching dashboard %v: %v",
\* rep.dashName, err)
GenerateDashboardErr(name, cause) ==
    [file |-> NoFile, phase |-> "dashboard", dashName |-> name,
     cause |-> cause]

\* report.go:73-78  GetDashboard; on failure Generate returns the wrapped
\* error, otherwise the title is stored.
GGetDashboard ==
    /\ alive /\ pc = "Generate"
    /\ \/ /\ genRet' = GenerateDashboardErr(DashName, Err("source", 0))
          /\ pc' = "Generate.return"
          /\ UNCHANGED <<dash, dashTitle>>
       \/ \E n \in 0..MaxPanels, t \in Titles :
          /\ dash' = [n |-> n, title |-> t]
          /\ dashTitle' = t
          /\ genRet' = NoRet
          /\ pc' = "renderPNGsParallel"
    /\ UNCHANGED <<alive, poolVars, fs, rret, fileOpen, callerVars, ghostVars,
                   sideVars>>

\* report.go:80-86  the retrieval's error is wrapped and returned; otherwise
\* the composite is opened (O_RDWR|O_CREATE) and the handle returned.
GRendered ==
    /\ alive /\ pc = "Generate.rendered"
    /\ IF rret.err # NoErr
         THEN /\ genRet' = [file |-> NoFile, phase |-> "rendering",
                            dashName |-> "", cause |-> rret.err]
              /\ UNCHANGED <<fs, fileOpen>>
         ELSE \E ok \in BOOLEAN :
              IF ok
                THEN /\ genRet' = [file |-> rret.fn, phase |-> "none",
                                   dashName |-> "", cause |-> NoErr]
                     /\ fs' = fs \cup {rret.fn}
                     /\ fileOpen' = TRUE
                ELSE /\ genRet' = [file |-> NoFile, phase |-> "open",
                                   dashName |-> "", cause |-> Err("open", 0)]
                     /\ UNCHANGED <<fs, fileOpen>>
    /\ pc' = "Generate.return"
    /\ ReturnRetrieval /\ dash' = NoDash
    /\ UNCHANGED <<alive, dashTitle, callerVars, sideVars>>

\* --------------------------------------------- report.Title, report.Clean
\* the title of a dashboard stored whether or not its fetch failed
TitleFetchedUnchecked(cur, ok, t) == IF cur = "" THEN t ELSE cur

\* report.go:90-100  the title after Title(): fetched when it is still "",
\* and left "" when that fetch fails.
TitleFetched(cur, ok, t) == IF cur = "" /\ ok THEN t ELSE cur

\* report.go:91-99  what Title() returns: "" when its fetch fails, else the
\* title the report then holds
TitleReturn(cur, ok, t) ==
    IF cur = "" /\ ~ok THEN "" ELSE TitleFetched(cur, ok, t)

\* report.go:91-99  one Title() call: whether it fetched the dashboard and
\* how the fetch ended, the title it got, and what it returned
TitleCall(cur, ok, t) ==
    [fetch |-> IF cur # "" THEN "reuse" ELSE IF ok THEN "ok" ELSE "err",
     got |-> IF cur = "" /\ ok THEN t ELSE "",
     ret |-> TitleReturn(cur, ok, t)]

\* Clean removing the image directory only
CleanImagesOnly(files) == RemoveAll(files, imgDirPath)

\* report.go:103-108  os.RemoveAll(rep.tmpDir); an error would only be logged
Clean(files) == RemoveAll(files, TmpDir)

\* the caller has not called Title(), or has made another call since
NoTitleCall == [fetch |-> "none", got |-> "", ret |-> ""]

\* ------------------------------------------- ServeReportHandler.ServeHTTP
\* handler.go:47-53  the report is made and Generate() is called
HStart ==
    /\ alive /\ driver = "ServeHTTP" /\ pc = "ServeHTTP"
    /\ pc' = "Generate"
    /\ UNCHANGED <<alive, dashTitle, dash, poolVars, fs, rret, genRet,
                   fileOpen, callerVars, ghostVars, sideVars>>

\* handler.go:53-60  on an error the handler answers 500 and returns; else
\* Clean and Close are deferred.
HGenerated ==
    /\ alive /\ driver = "ServeHTTP" /\ pc = "Generate.return"
    /\ IF genRet.cause # NoErr
         THEN status' = 500 /\ pc' = "ServeHTTP.return"
         ELSE UNCHANGED status /\ pc' = "ServeHTTP.Title"
    /\ UNCHANGED <<driver, calls, cleanCalls, alive, dashTitle, dash,
                   poolVars, fs, rret, genRet, fileOpen, ghostVars, sideVars>>

\* handler.go:61-62  rep.Title()
HTitle ==
    /\ alive /\ driver = "ServeHTTP" /\ pc = "ServeHTTP.Title"
    /\ \E ok \in BOOLEAN, t \in Titles :
        /\ dashTitle' = TitleFetched(dashTitle, ok, t)
        /\ titleCall' = TitleCall(dashTitle, ok, t)
    /\ pc' = "ServeHTTP.Copy"
    /\ UNCHANGED <<alive, dash, poolVars, fs, rret, genRet, fileOpen,
                   callerVars, ghostVars, worker, composeIn, composeOut,
                   sess>>

\* handler.go:64-70  io.Copy(w, file)
HCopy ==
    /\ alive /\ driver = "ServeHTTP" /\ pc = "ServeHTTP.Copy"
    /\ \E ok \in BOOLEAN : status' = IF ok THEN 200 ELSE 500
    /\ pc' = "ServeHTTP.Close"
    /\ UNCHANGED <<driver, calls, cleanCalls, alive, dashTitle, dash,
                   poolVars, fs, rret, genRet, fileOpen, ghostVars, sideVars>>

\* the handle left as it is
fileCloseSkipped(open) == open

\* handler.go:60  file.Close(): the handle is open no more
fileClose(open) == FALSE

\* handler.go:59-60  the deferred calls run last registered first:
\* file.Close(), then rep.Clean()
HClose ==
    /\ alive /\ driver = "ServeHTTP" /\ pc = "ServeHTTP.Close"
    /\ fileOpen' = fileClose(fileOpen)
    /\ pc' = "ServeHTTP.Clean"
    /\ UNCHANGED <<alive, dashTitle, dash, poolVars, fs, rret, genRet,
                   callerVars, ghostVars, sideVars>>

\* handler.go:59  deferred rep.Clean()
HClean ==
    /\ alive /\ driver = "ServeHTTP" /\ pc = "ServeHTTP.Clean"
    /\ fs' = Clean(fs)
    /\ cleanCalls' = cleanCalls + 1
    /\ pc' = "ServeHTTP.return"
    /\ UNCHANGED <<driver, calls, status, alive, dashTitle, dash, poolVars,
                   rret, genRet, fileOpen, ghostVars, sideVars>>

\* ------------------------------------- a direct caller of the Report API
\* report.go:39-43  Generate(), Title() and Clean() called in any order
SGenerate ==
    /\ alive /\ driver = "session" /\ pc = "idle" /\ calls < MaxCalls
    /\ calls' = calls + 1
    /\ pc' = "Generate"
    /\ titleCall' = NoTitleCall
    /\ UNCHANGED <<driver, status, cleanCalls, alive, dashTitle, dash,
                   poolVars, fs, rret, genRet, fileOpen, ghostVars, worker,
                   composeIn, composeOut, sess>>

SGenerated ==
    /\ alive /\ driver = "session" /\ pc = "Generate.return"
    /\ pc' = "idle"
    /\ UNCHANGED <<alive, dashTitle, dash, poolVars, fs, rret, genRet,
                   fileOpen, callerVars, ghostVars, sideVars>>

STitle ==
    /\ alive /\ driver = "session" /\ pc = "idle" /\ calls < MaxCalls
    /\ calls' = calls + 1
    /\ \E ok \in BOOLEAN, t \in Titles :
        /\ dashTitle' = TitleFetched(dashTitle, ok, t)
        /\ titleCall' = TitleCall(dashTitle, ok, t)
    /\ UNCHANGED <<driver, status, cleanCalls, pc, alive, dash, poolVars, fs,
                   rret, genRet, fileOpen, ghostVars, worker, composeIn,
                   composeOut, sess>>

SClean ==
    /\ alive /\ driver = "session" /\ pc = "idle" /\ calls < MaxCalls
    /\ calls' = calls + 1
    /\ fs' = Clean(fs)
    /\ cleanCalls' = cleanCalls + 1
    /\ titleCall' = NoTitleCall
    /\ UNCHANGED <<driver, status, pc, alive, dashTitle, dash, poolVars, rret,
                   genRet, fileOpen, ghostVars, worker, composeIn,
                   composeOut, sess>>

\* report.go:70-71  the caller closes the file Generate returned
SClose ==
    /\ alive /\ driver = "session" /\ pc = "idle" /\ fileOpen
    /\ fileOpen' = fileClose(fileOpen)
    /\ UNCHANGED <<pc, alive, dashTitle, dash, poolVars, fs, rret, genRet,
                   callerVars, ghostVars, sideVars>>

\* ------------------------------------------- processImages on its own
\* report.go:242-247  imageData: the width and height getDim read
imageData(w, h) == [width |-> w, height |-> h]
Dims == 0..MaxDim
ImageDatas == {imageData(w, h) : w \in Dims, h \in Dims}
ImageSlices == UNION {[1..n -> ImageDatas] : n \in 0..MaxImages}

\* report.go:284-291  the summed height and width
RECURSIVE getTotalDim(_)
getTotalDim(ims) ==
    IF ims = <<>> THEN [height |-> 0, width |-> 0]
    ELSE LET rest == getTotalDim(Tail(ims))
         IN  [height |-> Head(ims).height + rest.height,
              width |-> Head(ims).width + rest.width]

\* getTotalDim without its check of the sums
totalDimUnchecked(height, width) == FALSE

\* report.go:293-295  "total Height and Width cannot be 0"
totalDimErr(height, width) == height = 0 /\ width = 0

\* report.go:302-314  the largest height and the largest width, from 0
RECURSIVE getMaxDim(_)
getMaxDim(ims) ==
    IF ims = <<>> THEN [maxh |-> 0, maxw |-> 0]
    ELSE LET rest == getMaxDim(Tail(ims))
         IN  [maxh |-> IF Head(ims).height > rest.maxh
                         THEN Head(ims).height ELSE rest.maxh,
              maxw |-> IF Head(ims).width > rest.maxw
                         THEN Head(ims).width ELSE rest.maxw]

\* image.Rect(x0, y0, x1, y1): the corners are put in order
Rect(x0, y0, x1, y1) ==
    [minX |-> IF x0 <= x1 THEN x0 ELSE x1, minY |-> IF y0 <= y1 THEN y0 ELSE y1,
     maxX |-> IF x0 <= x1 THEN x1 ELSE x0, maxY |-> IF y0 <= y1 THEN y1 ELSE y0]
NoRect == Rect(0, 0, 0, 0)

\* a canvas as wide as the summed widths
makeImageCanvasTotal(th, tw, maxh, maxw) == Rect(0, 0, tw, th)

\* report.go:344  img = image.NewRGBA(image.Rect(0, 0, maxw, th))
makeImageCanvas(th, tw, maxh, maxw) == Rect(0, 0, maxw, th)

\* report.go:345-349  the rectangle each image is drawn into, posx staying 0
\* and posy advancing by the height of each image drawn
RECURSIVE makeImageRects(_, _, _)
makeImageRects(ims, posx, posy) ==
    IF ims = <<>> THEN <<>>
    ELSE <<Rect(posx, posy, posx + Head(ims).width, posy + Head(ims).height)>>
         \o makeImageRects(Tail(ims), posx, posy + Head(ims).height)

\* What processImages returned, and what makeImage drew when it was reached.
NoComposition ==
    [called |-> FALSE, made |-> FALSE, err |-> NoErr, out |-> NoFile,
     canvas |-> NoRect, rects |-> <<>>]

\* report.go:320-364  processImages(images, outfile): getTotalDim's error is
\* returned before makeImage is called; otherwise makeImage draws the canvas
\* and creates and encodes outfile + ".png".  o is the step of makeImage
\* that fails, or "ok".
processImages(ims, outfile, o) ==
    LET t == getTotalDim(ims)
        m == getMaxDim(ims)
    IN  IF totalDimErr(t.height, t.width)
          THEN [called |-> TRUE, made |-> FALSE, err |-> Err("totalDim", 0),
                out |-> NoFile, canvas |-> NoRect, rects |-> <<>>]
          ELSE [called |-> TRUE, made |-> TRUE,
                err |-> IF o = "ok" THEN NoErr ELSE Err(o, 0),
                out |-> IF o = "ok" THEN compositePath(outfile) ELSE NoFile,
                canvas |-> makeImageCanvas(t.height, t.width, m.maxh, m.maxw),
                rects |-> makeImageRects(ims, 0, 0)]

\* report.go:320-335  one call of processImages
PProcessImages ==
    /\ driver = "processImages" /\ pc = "processImages"
    /\ \E o \in ComposeOutcome :
        /\ composeOut' = processImages(composeIn, "out", o)
        /\ fs' = IF composeOut'.made /\ o # "create"
                   THEN fs \cup {compositePath("out")} ELSE fs
    /\ pc' = "processImages.return"
    /\ UNCHANGED <<alive, dashTitle, dash, poolVars, rret, genRet, fileOpen,
                   callerVars, ghostVars, worker, titleCall, composeIn,
                   sess>>

\* ------------------------------------------- two concurrent sessions
\* handler.go:46-51  net/http serves each request in a goroutine of its own,
\* and each request makes a report of its own
Sessions == {1, 2}

\* report.go:66  tmpDir := filepath.Join("tmp", uuid.New()): each report
\* gets a uuid of its own
tmpDirOf(s) == <<"tmp", "uuid" \o ToString(s)>>
\* report.go:110-112, 192-193  a panel's image file of session s
imgFilePathOf(s, p) == tmpDirOf(s) \o <<imgDir, imgFileName(p)>>

\* A session: its position in Generate, the dashboard it fetched, the panels
\* it has rendered and the paths it has written.
NewSession ==
    [pc |-> "Generate", title |-> "", n |-> 0, rendered |-> {}, wrote |-> {}]

\* report.go:73-80  the session fetches its dashboard; on failure Generate
\* returns at once
TGetDashboard(s) ==
    /\ alive /\ driver = "sessions" /\ sess[s].pc = "Generate"
    /\ \/ sess' = [sess EXCEPT ![s].pc = "done"]
       \/ \E n \in 0..MaxPanels, t \in Titles :
            sess' = [sess EXCEPT ![s].pc = "renderPNG", ![s].n = n,
                                 ![s].title = t]
    /\ UNCHANGED <<pc, alive, dashTitle, dash, poolVars, fs, rret, genRet,
                   fileOpen, callerVars, ghostVars, worker, titleCall,
                   composeIn, composeOut>>

\* report.go:141-150, 180-206  a goroutine of the session's pool renders one
\* panel: the image file is written under the session's own image directory;
\* when renderPNG fails the goroutine goes on to os.Open("") and log.Fatal
TRenderPNG(s) ==
    /\ alive /\ driver = "sessions" /\ sess[s].pc = "renderPNG"
    /\ \E p \in (1..sess[s].n) \ sess[s].rendered, out \in RenderOutcome :
        LET written == IF out \in {"ok", "copy"}
                         THEN {imgFilePathOf(s, p)} ELSE {}
        IN  /\ sess' = [sess EXCEPT ![s].rendered = @ \cup {p},
                                    ![s].wrote = @ \cup written]
            /\ fs' = fs \cup written
            /\ IF out = "ok" THEN UNCHANGED alive ELSE logFatal
    /\ UNCHANGED <<pc, dashTitle, dash, poolVars, rret, genRet, fileOpen,
                   callerVars, ghostVars, worker, titleCall, composeIn,
                   composeOut>>

\* report.go:168-177, 320-364  every panel is rendered: processImages fails
\* for no image, and otherwise makeImage creates dash.Title + ".png"
TProcessImages(s) ==
    /\ alive /\ driver = "sessions" /\ sess[s].pc = "renderPNG"
    /\ sess[s].rendered = 1..sess[s].n
    /\ \E out \in ComposeOutcome :
        LET written == IF sess[s].n = 0 \/ out = "create" THEN {}
                       ELSE {compositePath(sess[s].title)}
        IN  /\ sess' = [sess EXCEPT ![s].pc = "done",
                                    ![s].wrote = @ \cup written]
            /\ fs' = fs \cup written
    /\ UNCHANGED <<pc, alive, dashTitle, dash, poolVars, rret, genRet,
                   fileOpen, callerVars, ghostVars, worker, titleCall,
                   composeIn, composeOut>>

\* ------------------------------------------------------- specifications
\* report.go:65-68  a new report: no title, nothing on disk yet
InitReport ==
    /\ alive = TRUE
    /\ calls = 0
    /\ dashTitle = ""
    /\ dash = NoDash
    /\ NoRetrieval
    /\ fs = {}
    /\ genRet = NoRet
    /\ fileOpen = FALSE
    /\ status = 0
    /\ cleanCalls = 0
    /\ titleCall = NoTitleCall
    /\ composeOut = NoComposition
    /\ sess = [s \in Sessions |-> NewSession]

\* Any goroutine of the pool may take its next step.
Recv == \E g \in BagToSet(pool) : WRecv(g)
Exit == \E g \in BagToSet(pool) : WExit(g)
RenderPNG == \E g \in BagToSet(pool) : WRenderPNG(g)
ErrsSend == \E g \in BagToSet(pool) : WErrsSend(g)
Open == \E g \in BagToSet(pool) : WOpen(g)
Decode == \E g \in BagToSet(pool) : WDecode(g)
AppendLoad == \E g \in BagToSet(pool) : WAppendLoad(g)
AppendStore == \E g \in BagToSet(pool) : WAppendStore(g)

\* One request served by ServeHTTP.
Init ==
    /\ driver = "ServeHTTP" /\ pc = "ServeHTTP" /\ InitReport
    /\ \E flag \in WorkerFlags : worker = mainWorker(flag)
    /\ composeIn = <<>>
Next ==
    \/ HStart \/ HGenerated \/ HTitle \/ HCopy \/ HClose \/ HClean
    \/ GGetDashboard \/ REnqueue \/ RWait \/ RCollect \/ GRendered
    \/ Recv \/ Exit \/ RenderPNG \/ ErrsSend \/ Open \/ Decode
    \/ AppendLoad \/ AppendStore
Spec == Init /\ [][Next]_vars

\* One report used directly through the Report interface.
InitSession ==
    /\ driver = "session" /\ pc = "idle" /\ InitReport
    /\ worker = mainWorker(workerDefault)
    /\ composeIn = <<>>
NextSession ==
    \/ SGenerate \/ SGenerated \/ STitle \/ SClean \/ SClose
    \/ GGetDashboard \/ REnqueue \/ RWait \/ RCollect \/ GRendered
    \/ Recv \/ Exit \/ RenderPNG \/ ErrsSend \/ Open \/ Decode
    \/ AppendLoad \/ AppendStore
SpecSession == InitSession /\ [][NextSession]_vars

\* processImages applied to every slice of images up to the bounds.
InitCompose ==
    /\ driver = "processImages" /\ pc = "processImages" /\ InitReport
    /\ worker = mainWorker(workerDefault)
    /\ composeIn \in ImageSlices
NextCompose == PProcessImages
SpecCompose == InitCompose /\ [][NextCompose]_vars

\* Two requests served at the same time, each by a session of its own.
GetDashboard2 == \E s \in Sessions : TGetDashboard(s)
RenderPNG2 == \E s \in Sessions : TRenderPNG(s)
ProcessImages2 == \E s \in Sessions : TProcessImages(s)
InitTwo ==
    /\ driver = "sessions" /\ pc = "sessions" /\ InitReport
    /\ worker = mainWorker(workerDefault)
    /\ composeIn = <<>>
NextTwo == GetDashboard2 \/ RenderPNG2 \/ ProcessImages2
SpecTwo == InitTwo /\ [][NextTwo]_vars

\* =================================================================
\* Properties
\* =================================================================
\* The retrieval is over: renderPNGsParallel has returned to Generate, or the
\* process has exited in the middle of it.
Returned == alive /\ pc = "Generate.rendered"
RunOver == ~alive \/ pc = "Generate.rendered"
DashPanels == 1..dash.n
FailedPanels == {f[1] : f \in failed}
ImageFiles == {p \in PanelIds : imgFilePath(p) \in fs}
WorkspaceExists == \E f \in fs : IsPrefix(TmpDir, f)
AllExited == queue = <<>> /\ pool = [g \in {Exited} |-> workers]

\* C1: once a retrieval is over, every panel of the dashboard has been
\* fetched exactly once: none twice, none skipped.
C1_EachPanelFetchedOnce ==
    RunOver => \A p \in DashPanels : fetchCount[p] = 1

\* C2: the images handed to processImages are in dashboard position order.
C2_ComposedInPositionOrder ==
    composing =>
        \A a, b \in 1..Len(composed) : a < b => composed[a] < composed[b]

\* C3: the images slice handed to processImages after the barrier holds
\* exactly one entry per panel.
C3_OneEntryPerPanel ==
    composing =>
        /\ Len(composed) = dash.n
        /\ {composed[k] : k \in 1..Len(composed)} = DashPanels

\* C4: when exactly one panel failed, and failed to fetch, the retrieval
\* returns that panel's error and processImages is not called.
C4_OneFailureIsReturned ==
    \A p \in PanelIds :
        (RunOver /\ failed = {<<p, "fetch">>}) =>
            /\ alive
            /\ rret.err = Err("fetch", p)
            /\ ~composing
            /\ rret.fn = NoFile

\* C5: the process never exits, and a retrieval in which a panel failed
\* returns an error.
C5_FailuresAreReturned ==
    /\ alive
    /\ (pc = "Generate.rendered" /\ failed # {}) => rret.err # NoErr

\* C6: when one panel failed to fetch, the retrieval still fetched every
\* panel and stored the image of every other panel.
C6_OthersStillRetrieved ==
    \A p \in PanelIds :
        (RunOver /\ failed = {<<p, "fetch">>}) =>
            /\ \A q \in DashPanels : fetchCount[q] = 1
            /\ ImageFiles = DashPanels \ {p}

\* the failed panel that comes first in dashboard order
FirstFailed == CHOOSE p \in FailedPanels : \A q \in FailedPanels : p <= q

\* C7: when two or more panels failed, the retrieval returns the error of
\* the failed panel that comes first in dashboard order.
C7_FirstFailureInEnqueueOrder ==
    (RunOver /\ Cardinality(FailedPanels) >= 2) =>
        \E f \in failed :
            /\ f[1] = FirstFailed
            /\ rret.err = renderPNGErr(f[1], f[2])

\* C8: the errs channel and the images slice are read, and processImages is
\* called, only when the queue is empty and every goroutine has exited.
C8_BarrierBeforeCollect ==
    (pc = "collect" \/ composing) => AllExited

\* C8 witness: the barrier is passed after the pool retrieved two panels.
C8_Witness ==
    pc = "collect" /\ dash.n = 2 /\ Len(images) >= 1 /\ AllExited

\* C9: when ServeHTTP returns, Clean() has been called exactly once and the
\* workspace directory is gone.
C9_CleanOnEveryExit ==
    pc = "ServeHTTP.return" => (cleanCalls = 1 /\ ~WorkspaceExists)

\* C10: every Clean() leaves the workspace directory absent and the process
\* running, and a Clean() of an absent workspace changes no variable but the
\* count of calls.
C10_CleanIdempotent ==
    [][cleanCalls' # cleanCalls =>
          /\ ~WorkspaceExists'
          /\ alive'
          /\ ~WorkspaceExists => fs' = fs
          /\ UNCHANGED <<pc, dashTitle, genRet, fileOpen, poolVars>>]_vars

\* C10 witness: Clean() has run twice on a session whose Generate() had made
\* the workspace.
C10_Witness ==
    /\ cleanCalls = 2
    /\ <<"tmp">> \in fs
    /\ ~WorkspaceExists

\* what the session has put on disk, the scratch root "tmp" aside
SessionFiles == fs \ {<<"tmp">>}

\* C11: the composite is written under the workspace directory, and once
\* Clean() has run nothing the session created is left on disk.
C11_NothingLeftAfterClean ==
    /\ rret.fn # NoFile => IsPrefix(TmpDir, rret.fn)
    /\ (pc = "ServeHTTP.return" /\ cleanCalls >= 1) => SessionFiles = {}

\* the summed height and the summed width of the first k images of ims
RECURSIVE HeightBefore(_, _)
HeightBefore(ims, k) ==
    IF k = 0 THEN 0 ELSE HeightBefore(ims, k - 1) + ims[k].height
RECURSIVE WidthBefore(_, _)
WidthBefore(ims, k) ==
    IF k = 0 THEN 0 ELSE WidthBefore(ims, k - 1) + ims[k].width
\* rectangle r lies inside rectangle c
Inside(r, c) ==
    /\ c.minX <= r.minX /\ r.maxX <= c.maxX
    /\ c.minY <= r.minY /\ r.maxY <= c.maxY
\* rectangles a and b share a pixel
Overlap(a, b) ==
    /\ a.minX < b.maxX /\ b.minX < a.maxX
    /\ a.minY < b.maxY /\ b.minY < a.maxY

\* C12: when makeImage composes a non-empty slice of images, the canvas is
\* as wide as the widest image and as high as the heights summed, the k-th
\* image is drawn at x = 0 and y = the summed heights of the images before
\* it, every rectangle drawn lies inside the canvas and no two overlap.
C12_CanvasAndPositions ==
    (composeOut.made /\ Len(composeIn) >= 1) =>
        LET n == Len(composeIn)
            c == composeOut.canvas
            r == composeOut.rects
        IN  /\ c.minX = 0 /\ c.minY = 0
            /\ \A k \in 1..n : composeIn[k].width <= c.maxX
            /\ \E k \in 1..n : composeIn[k].width = c.maxX
            /\ c.maxY = HeightBefore(composeIn, n)
            /\ Len(r) = n
            /\ \A k \in 1..n :
                /\ r[k].minX = 0
                /\ r[k].minY = HeightBefore(composeIn, k - 1)
                /\ r[k].maxX = composeIn[k].width
                /\ r[k].maxY = r[k].minY + composeIn[k].height
                /\ Inside(r[k], c)
            /\ \A j, k \in 1..n : j < k => ~Overlap(r[j], r[k])

\* C12 witness: two images of different widths were composed.
C12_Witness ==
    /\ composeOut.made
    /\ composeIn = <<imageData(1, 2), imageData(2, 1)>>

\* C13: processImages called with no image, or with images whose summed
\* width and summed height are both 0, returns getTotalDim's error, does not
\* reach makeImage and leaves no file.
C13_ZeroSizeIsError ==
    (/\ composeOut.called
     /\ HeightBefore(composeIn, Len(composeIn)) = 0
     /\ WidthBefore(composeIn, Len(composeIn)) = 0) =>
        /\ composeOut.err = Err("totalDim", 0)
        /\ composeOut.out = NoFile
        /\ ~composeOut.made
        /\ fs = {}

\* C13 witness: processImages has returned for two images of size 0 x 0.
C13_Witness ==
    /\ composeOut.called
    /\ composeIn = <<imageData(0, 0), imageData(0, 0)>>
    /\ composeOut.err # NoErr

\* The caller's step is a Title() call.
TitleStep == calls' = calls + 1 /\ titleCall'.fetch # "none"

\* C14: a Title() call made while the report holds no title fetches the
\* dashboard itself and returns the title it got; when that fetch fails it
\* returns "", and the report is left as it was, idle and running, so that
\* Generate() can be called next.
C14_TitleBeforeGenerate ==
    [][(TitleStep /\ dashTitle = "") =>
          /\ titleCall'.fetch \in {"ok", "err"}
          /\ titleCall'.fetch = "ok" =>
                /\ titleCall'.ret = titleCall'.got
                /\ dashTitle' = titleCall'.got
          /\ titleCall'.fetch = "err" =>
                /\ titleCall'.ret = ""
                /\ dashTitle' = dashTitle
          /\ alive' /\ pc' = "idle"
          /\ UNCHANGED <<fs, genRet, fileOpen, poolVars, dash>>]_vars

\* C14 witness: the first call on the report was Title() and its fetch
\* failed.
C14_Witness ==
    /\ calls = 1
    /\ titleCall = [fetch |-> "err", got |-> "", ret |-> ""]
    /\ pc = "idle" /\ alive

\* The step calls GetDashboard: in Generate (report.go:73) or in a Title()
\* that fetches (report.go:92).
DashboardFetchStep ==
    \/ pc = "Generate" /\ pc' # "Generate"
    \/ /\ calls' # calls \/ pc = "ServeHTTP.Title"
       /\ titleCall'.fetch \in {"ok", "err"}

\* C15: once the report holds a title, no call fetches the dashboard again:
\* neither a Generate() after a successful Title() nor a repeated Title().
C15_TitleReused ==
    [][dashTitle # "" => ~DashboardFetchStep]_vars

\* C16: the pool a retrieval starts has as many goroutines as the -worker
\* flag asks for, at least 1 and never 0.
C16_PoolSizeIsConfigured ==
    pool # EmptyBag =>
        /\ worker >= 1
        /\ BagCardinality(pool) = worker

\* the entries of the image directory
ImageDirFiles ==
    {f \in fs : Len(f) = Len(imgDirPath) + 1 /\ IsPrefix(imgDirPath, f)}
\* renderPNG has run for every panel of the dashboard and never failed
AllFetchesSucceeded ==
    /\ \A p \in DashPanels : fetchCount[p] = 1
    /\ failed = {}
\* no two goroutines of the pool hold the same panel
NoSharedPanel ==
    \A g \in BagToSet(pool) :
        g.p # 0 =>
            /\ CopiesIn(g, pool) = 1
            /\ \A h \in BagToSet(pool) : h # g => h.p # g.p
\* the image directory exists and holds the image files of the dashboard's
\* panels and nothing else
OneFilePerPanel ==
    /\ imgDirPath \in fs
    /\ ImageDirFiles = {imgFilePath(p) : p \in DashPanels}
    /\ Cardinality(ImageDirFiles) = dash.n

\* C17 as stated: after a retrieval of N panels whose fetches all succeeded,
\* the image directory exists and holds exactly the N files image<id>.png,
\* and no two goroutines ever hold the same panel.
C17_OneFilePerPanel ==
    /\ NoSharedPanel
    /\ (RunOver /\ AllFetchesSucceeded) => OneFilePerPanel

\* C17 amended: the same for a dashboard of at least one panel; a retrieval
\* of no panel never makes the image directory.
C17_OneFilePerPanelNonEmpty ==
    /\ NoSharedPanel
    /\ (RunOver /\ AllFetchesSucceeded /\ dash.n >= 1) => OneFilePerPanel
    /\ (RunOver /\ dash.n = 0) => imgDirPath \notin fs

\* C17 witness: a retrieval of two panels has returned with both stored.
C17_Witness ==
    /\ Returned /\ dash.n = 2 /\ AllFetchesSucceeded
    /\ Cardinality(ImageDirFiles) = 2

\* C18: when Generate's dashboard fetch fails, Generate returns the source's
\* error wrapped with the dashboard name and no file; no panel is fetched,
\* no goroutine is started, nothing is written to disk, no handle is opened
\* and the report's title stays as it was.
C18_DashboardFetchFails ==
    [][(pc = "Generate" /\ pc' = "Generate.return") =>
          /\ genRet'.cause = Err("source", 0)
          /\ genRet'.phase = "dashboard"
          /\ genRet'.dashName = DashName
          /\ genRet'.file = NoFile
          /\ pool = EmptyBag /\ wg = 0
          /\ alive'
          /\ UNCHANGED <<fs, fileOpen, dashTitle, dash, fetchCount, poolVars>>
      ]_vars

\* C18 witness: Generate() has returned the dashboard error on a report
\* whose title an earlier Title() had fetched.
C18_Witness ==
    /\ pc = "Generate.return"
    /\ genRet.phase = "dashboard"
    /\ dashTitle = "Dash"
    /\ fs = {}

\* C19: in ServeHTTP, Clean() runs only when the handle Generate() returned
\* has been closed, whether or not copying the file to the response failed.
C19_CloseBeforeClean ==
    [][cleanCalls' # cleanCalls => ~fileOpen /\ ~fileOpen']_vars

\* C19 witness: ServeHTTP has returned after a failed copy of the composite,
\* with the handle closed and Clean() run.
C19_Witness ==
    /\ pc = "ServeHTTP.return"
    /\ genRet.file # NoFile
    /\ status = 500
    /\ cleanCalls = 1
    /\ ~fileOpen

\* some goroutine of the pool, or the coordinator waiting at the barrier,
\* can take a step
RetrievalCanStep ==
    ENABLED (Recv \/ Exit \/ RenderPNG \/ ErrsSend \/ Open \/ Decode
             \/ AppendLoad \/ AppendStore \/ RWait)
\* no goroutine about to send on errs finds the channel full
ErrsNeverFull ==
    \A g \in BagToSet(pool) : g.pc = "errs" => Len(errs) < errsCap

\* C20: a retrieval never gets stuck before its barrier: no goroutine blocks
\* sending on errs, and while the coordinator has not passed wg.Wait() some
\* goroutine can still step or the barrier can be passed.
C20_RetrievalNeverStuck ==
    /\ ErrsNeverFull
    /\ pc = "wg.Wait" => RetrievalCanStep

\* C21: two sessions running at the same time never write the same path,
\* and every path a session writes lies under its own workspace directory.
C21_SessionsWriteApart ==
    \A s, t \in Sessions :
        /\ s # t => sess[s].wrote \cap sess[t].wrote = {}
        /\ \A f \in sess[s].wrote : IsPrefix(tmpDirOf(s), f)

\* the goroutine is past renderPNG in its iteration
PastRenderPNG(g) == g.pc \in {"errs", "open", "decode", "append", "store"}
\* the fimg handles open in the pool
HandlesHeld == {g \in BagToSet(pool) : g.held > 0}

\* C22: the file renderPNG wrote is closed when the goroutine opens it for
\* decoding, and once the barrier is passed no handle a goroutine opened for
\* decoding is open; a goroutine keeps its handles from one panel to the
\* next, until it exits.
C22_HandlesClosedAtBarrier ==
    /\ \A g \in BagToSet(pool) : PastRenderPNG(g) => ~g.wopen
    /\ \A g \in BagToSet(pool) : g.pc = "done" => g.held = 0
    /\ (pc = "collect" \/ composing) => HandlesHeld = {}
    /\ \A g \in BagToSet(pool) :
        g.pc \in {"append", "store"} => g.held >= 1

\* C22 witness: the barrier is passed after a retrieval in which a goroutine
\* had opened and decoded a panel's file.
C22_Witness ==
    /\ pc = "collect" /\ Len(images) >= 1
    /\ HandlesHeld = {}

====
